---- MODULE Spec2Model ----
(***************************************************************************)
(* Chkobba game server: the GameState engine (game_logic.py), the AI       *)
(* policies (ai.py) and the per-room turn orchestration (app.py).          *)
(*                                                                         *)
(* Cards are the integers 1..40 in the order Deck._create_deck builds      *)
(* them (suits H, D, C, S; ranks A,2..7,Q,J,K inside a suit).  Seats are   *)
(* 0..num_players-1 as in the source.  GameState methods are atomic steps; *)
(* the three movers of a room (handle_play_card, timeout_handler, ai_move) *)
(* interleave at their blocking calls (time.sleep, db.record_move).        *)
(***************************************************************************)
EXTENDS Integers, Sequences, FiniteSets, TLC

\* ------------------------------------------------------------------ bounds
\* Rounds explored; no play is taken once round_number exceeds it.
MaxRounds == 2
\* The opening of a game, in plays: inside it a human may play any move and a
\* random AI choice may fall on any move that play_card accepts; after it
\* the humans send the heuristic move and the accepted random choices fall on
\* it.
Window == 2
\* Only a timer armed before this many plays is let expire.
TimerWindow == 3
\* Plays accepted while an expired timer's handler is in its 10 s sleep.
MaxStale == 2
\* Chkobba counters of the end-of-round positions that are scored.
MaxChkobba == 1
\* close_room arrives before this many plays were made.
CloseWindow == 3

\* --------------------------------------------------------------- constants
WINNING_SCORE == 21
DefaultPlayers == 2
HandSize == 3
TableSize == 4
DeckSize == 40
MostCardsMin == 21
HayaBonus == 100
MediumChkobbaBonus == 50
\* the weights of AIPlayer._evaluate_move, times two
HardChkobbaBonus2 == 150
HardValueWeight2 == 4
HardPenalty2 == 20
HardCountWeight2 == 3
HardNoiseSpan2 == 20
None == -1

\* ------------------------------------------------------------------- cards
\* Card.value: the rank's position in Card.RANKS, 1..10
Value(c) == ((c - 1) % 10) + 1

\* 0 = Hearts, 1 = Diamonds, 2 = Clubs, 3 = Spades
Suit(c) == (c - 1) \div 10

Haya == 17

Dinari == 27

IsDiamond(c) == Suit(c) = 1

\* ------------------------------------------------------- sequence helpers
RECURSIVE SumValues(_)
SumValues(s) == IF s = << >> THEN 0 ELSE Value(Head(s)) + SumValues(Tail(s))

Range(s) == {s[i] : i \in DOMAIN s}

Contains(s, x) == \E i \in DOMAIN s : s[i] = x

\* list.remove(x): drops the first occurrence of x
RECURSIVE RemoveFirst(_, _)
RemoveFirst(s, x) ==
    IF s = << >> THEN << >>
    ELSE IF Head(s) = x THEN Tail(s)
    ELSE <<Head(s)>> \o RemoveFirst(Tail(s), x)

RECURSIVE RemoveAll(_, _)
RemoveAll(s, xs) ==
    IF xs = << >> THEN s ELSE RemoveAll(RemoveFirst(s, Head(xs)), Tail(xs))

\* sorted(codes) compared with sorted(codes): equality as multisets
SameMultiset(a, b) ==
    /\ Len(a) = Len(b)
    /\ \A x \in Range(a) \cup Range(b) :
          Cardinality({i \in DOMAIN a : a[i] = x})
        = Cardinality({i \in DOMAIN b : b[i] = x})

\* ------------------------------------------------------------------- Deck
\* The permutation random.shuffle leaves in Deck.cards (the last element is
\* drawn first).  The random source is bounded to this one outcome.
Shuffled ==
    << 7, 14, 20, 21, 18, 33, 12, 34, 22, 32,  8, 31, 27, 19, 24,  9, 11, 13,
      23,  6,  5, 16, 15, 30, 40, 39, 38, 29, 28, 17,  4,  3,  2,  1, 37, 36,
      35, 26, 25, 10 >>

\* Deck.draw(count): pops up to count cards from the end of the list
RECURSIVE DrawCards(_, _)
DrawCards(cards, count) ==
    IF count = 0 \/ cards = << >> THEN << >>
    ELSE <<cards[Len(cards)]>> \o DrawCards(SubSeq(cards, 1, Len(cards) - 1), count - 1)

AfterDraw(cards, count) ==
    IF count >= Len(cards) THEN << >> ELSE SubSeq(cards, 1, Len(cards) - count)

\* -------------------------------------------------------------- GameState
Seats(g) == 0..(g.num_players - 1)

NewPlayer ==
    [hand |-> << >>, score |-> 0, chkobba_count |-> 0,
     captured_cards |-> << >>, round_captures |-> << >>]

\* GameState._setup_game: 3 cards to each seat in seat order, then 4 to the table
RECURSIVE DealHands(_, _, _)
DealHands(players, cards, idx) ==
    IF idx \notin DOMAIN players THEN [players |-> players, cards |-> cards]
    ELSE DealHands([players EXCEPT ![idx].hand = DrawCards(cards, HandSize)],
                   AfterDraw(cards, HandSize), idx + 1)

\* _setup_game, had it dealt 3 cards to the table
SetupGameShortTable(g) ==
    LET d == DealHands(g.players, g.deck, 0)
    IN  [g EXCEPT !.players = d.players,
                  !.table = DrawCards(d.cards, HandSize),
                  !.deck = AfterDraw(d.cards, HandSize)]

SetupGame(g) ==
    LET d == DealHands(g.players, g.deck, 0)
    IN  [g EXCEPT !.players = d.players,
                  !.table = DrawCards(d.cards, TableSize),
                  !.deck = AfterDraw(d.cards, TableSize)]

\* GameState.__init__
NewGameState(n, cards) ==
    SetupGame([num_players |-> n,
               deck |-> cards,
               players |-> [i \in 0..(n - 1) |-> NewPlayer],
               table |-> << >>,
               current_player |-> 0,
               round_number |-> 1,
               move_history |-> << >>,
               is_finished |-> FALSE,
               winner |-> None,
               last_capturer |-> None])

\* _deal_new_hands, had the cards it deals stayed in the deck
DealNewHandsKeepsDeck(g) ==
    IF Len(g.deck) >= g.num_players * HandSize
    THEN LET d == DealHands(g.players, g.deck, 0)
         IN  [g EXCEPT !.players = d.players]
    ELSE g

\* GameState._deal_new_hands
DealNewHands(g) ==
    IF Len(g.deck) >= g.num_players * HandSize
    THEN LET d == DealHands(g.players, g.deck, 0)
         IN  [g EXCEPT !.players = d.players, !.deck = d.cards]
    ELSE g

AllHandsEmpty(g) == \A i \in Seats(g) : g.players[i].hand = << >>

\* itertools.combinations(table, r) filtered on the value sum, in its
\* (lexicographic by position) order; each result is a list of table cards
RECURSIVE SumCombos(_, _, _, _)
SumCombos(table, start, r, total) ==
    IF r = 0 THEN (IF total = 0 THEN << << >> >> ELSE << >>)
    ELSE IF start > Len(table) \/ total <= 0 THEN << >>
    ELSE LET with == SumCombos(table, start + 1, r - 1, total - Value(table[start]))
             without == SumCombos(table, start + 1, r, total)
         IN  [k \in 1..Len(with) |-> <<table[start]>> \o with[k]] \o without

RECURSIVE CombosFrom(_, _, _)
CombosFrom(table, r, total) ==
    IF r > Len(table) THEN << >>
    ELSE SumCombos(table, 1, r, total) \o CombosFrom(table, r + 1, total)

\* The 1-to-1 matches of _find_captures, in table order
RECURSIVE SingleMatches(_, _)
SingleMatches(table, v) ==
    IF table = << >> THEN << >>
    ELSE (IF Value(Head(table)) = v THEN << <<Head(table)>> >> ELSE << >>)
         \o SingleMatches(Tail(table), v)

\* _find_captures, had it listed the sum combinations after the 1-to-1 matches
FindCapturesWithCombos(g, card) ==
    SingleMatches(g.table, Value(card)) \o CombosFrom(g.table, 2, Value(card))

\* GameState._find_captures
FindCaptures(g, card) ==
    LET singles == SingleMatches(g.table, Value(card))
    IN  IF singles # << >> THEN singles ELSE CombosFrom(g.table, 2, Value(card))

\* _has_single_card_match comparing the cards rather than their values
HasSingleCardMatchByCode(g, card) == \E i \in DOMAIN g.table : g.table[i] = card

\* GameState._has_single_card_match
HasSingleCardMatch(g, card) == \E i \in DOMAIN g.table : Value(g.table[i]) = Value(card)

\* GameState._has_non_capturing_card
HasNonCapturingCard(g, idx) ==
    \E i \in DOMAIN g.players[idx].hand :
        FindCaptures(g, g.players[idx].hand[i]) = << >>

\* _validate_capture without its mandatory-capture branch
ValidateCaptureSkipAllowed(g, card, captured_cards, idx) ==
    LET possible_captures == FindCaptures(g, card)
    IN  IF captured_cards = << >> THEN [ok |-> TRUE, msg |-> ""]
        ELSE IF HasSingleCardMatch(g, card) /\ Len(captured_cards) > 1
             THEN [ok |-> FALSE, msg |-> "combo_not_allowed"]
        ELSE IF \E i \in DOMAIN captured_cards : ~Contains(g.table, captured_cards[i])
             THEN [ok |-> FALSE, msg |-> "not_on_table"]
        ELSE IF SumValues(captured_cards) # Value(card)
             THEN [ok |-> FALSE, msg |-> "sum_mismatch"]
        ELSE IF ~\E k \in DOMAIN possible_captures :
                    SameMultiset(possible_captures[k], captured_cards)
             THEN [ok |-> FALSE, msg |-> "invalid_combination"]
        ELSE [ok |-> TRUE, msg |-> ""]

\* _validate_capture without its last test against the sets of _find_captures
ValidateCaptureNoFinalCheck(g, card, captured_cards, idx) ==
    LET possible_captures == FindCaptures(g, card)
    IN  IF captured_cards = << >>
        THEN IF possible_captures # << >> /\ ~HasNonCapturingCard(g, idx)
             THEN [ok |-> FALSE, msg |-> "must_capture"]
             ELSE [ok |-> TRUE, msg |-> ""]
        ELSE IF HasSingleCardMatch(g, card) /\ Len(captured_cards) > 1
             THEN [ok |-> FALSE, msg |-> "combo_not_allowed"]
        ELSE IF \E i \in DOMAIN captured_cards : ~Contains(g.table, captured_cards[i])
             THEN [ok |-> FALSE, msg |-> "not_on_table"]
        ELSE IF SumValues(captured_cards) # Value(card)
             THEN [ok |-> FALSE, msg |-> "sum_mismatch"]
        ELSE [ok |-> TRUE, msg |-> ""]

\* GameState._validate_capture: <<is_valid, message>>
ValidateCapture(g, card, captured_cards, idx) ==
    LET possible_captures == FindCaptures(g, card)
    IN  IF captured_cards = << >>
        THEN IF possible_captures # << >> /\ ~HasNonCapturingCard(g, idx)
             THEN [ok |-> FALSE, msg |-> "must_capture"]
             ELSE [ok |-> TRUE, msg |-> ""]
        ELSE IF HasSingleCardMatch(g, card) /\ Len(captured_cards) > 1
             THEN [ok |-> FALSE, msg |-> "combo_not_allowed"]
        ELSE IF \E i \in DOMAIN captured_cards : ~Contains(g.table, captured_cards[i])
             THEN [ok |-> FALSE, msg |-> "not_on_table"]
        ELSE IF SumValues(captured_cards) # Value(card)
             THEN [ok |-> FALSE, msg |-> "sum_mismatch"]
        ELSE IF ~\E k \in DOMAIN possible_captures :
                    SameMultiset(possible_captures[k], captured_cards)
             THEN [ok |-> FALSE, msg |-> "invalid_combination"]
        ELSE [ok |-> TRUE, msg |-> ""]

\* GameState._calculate_round_scores
CardCount(g, i) == Len(g.players[i].round_captures)

DiamondCount(g, i) ==
    Cardinality({k \in DOMAIN g.players[i].round_captures :
                    IsDiamond(g.players[i].round_captures[k])})

MaxOf(S) == CHOOSE x \in S : \A y \in S : y <= x

\* winners: the seats whose count is max(card_counts.values())
CardWinners(g) ==
    {i \in Seats(g) : CardCount(g, i) = MaxOf({CardCount(g, j) : j \in Seats(g)})}

\* the most-cards point given to any sole winner, whatever its count
MostCardsPointNoThreshold(g, i) == CardWinners(g) = {i}

MostCardsPoint(g, i) ==
    /\ CardWinners(g) = {i}
    /\ CardCount(g, i) >= MostCardsMin

DiamondWinners(g) ==
    {i \in Seats(g) :
        DiamondCount(g, i) = MaxOf({DiamondCount(g, j) : j \in Seats(g)})}

MostDiamondsPoint(g, i) ==
    /\ DiamondWinners(g) = {i}
    /\ DiamondCount(g, i) > 0

\* _calculate_round_scores without the point for the 7 of Clubs
CalculateRoundScoresNoDinari(g) ==
    [i \in Seats(g) |->
        (IF MostCardsPoint(g, i) THEN 1 ELSE 0)
      + (IF MostDiamondsPoint(g, i) THEN 1 ELSE 0)
      + (IF Contains(g.players[i].round_captures, Haya) THEN 1 ELSE 0)
      + g.players[i].chkobba_count]

CalculateRoundScores(g) ==
    [i \in Seats(g) |->
        (IF MostCardsPoint(g, i) THEN 1 ELSE 0)
      + (IF MostDiamondsPoint(g, i) THEN 1 ELSE 0)
      + (IF Contains(g.players[i].round_captures, Haya) THEN 1 ELSE 0)
      + (IF Contains(g.players[i].round_captures, Dinari) THEN 1 ELSE 0)
      + g.players[i].chkobba_count]

\* The seats whose total reaches WINNING_SCORE; the loop of end_round keeps
\* the last one it meets as the winner
Reached(players) == {i \in DOMAIN players : players[i].score >= WINNING_SCORE}

\* end_round, had it kept the deck of the round that ended
CarriedDeck(g) == g.deck

\* end_round: self.deck = Deck(), a new deck of 40 cards whatever the old
\* one holds
NewRoundDeck(g) == Shuffled

\* end_round, had it given the table cards to the seat that played last
EndRoundTableToMover(g) ==
    LET give == g.table # << >>
        g1 == IF give
              THEN [g EXCEPT
                      !.players[g.current_player].captured_cards = @ \o g.table,
                      !.players[g.current_player].round_captures = @ \o g.table,
                      !.table = << >>]
              ELSE g
        scores == CalculateRoundScores(g1)
        scored == [i \in Seats(g1) |->
                     [g1.players[i] EXCEPT !.score = @ + scores[i]]]
        g2 == [g1 EXCEPT
                 !.players = scored,
                 !.is_finished = g1.is_finished \/ Reached(scored) # {},
                 !.winner = IF Reached(scored) # {} THEN MaxOf(Reached(scored))
                            ELSE g1.winner]
        g3 == IF g2.is_finished THEN g2
              ELSE SetupGame(
                     [g2 EXCEPT
                        !.round_number = @ + 1,
                        !.table = << >>,
                        !.last_capturer = None,
                        !.deck = NewRoundDeck(g2),
                        !.players = [i \in Seats(g2) |->
                            [g2.players[i] EXCEPT !.hand = << >>,
                                                  !.round_captures = << >>,
                                                  !.chkobba_count = 0]]])
    IN  [g |-> g3, scores |-> scores]

\* end_round, had it left the chkobba counters as they were
EndRoundKeepsCounters(g) ==
    LET give == g.table # << >> /\ g.last_capturer # None
        g1 == IF give
              THEN [g EXCEPT
                      !.players[g.last_capturer].captured_cards = @ \o g.table,
                      !.players[g.last_capturer].round_captures = @ \o g.table,
                      !.table = << >>]
              ELSE g
        scores == CalculateRoundScores(g1)
        scored == [i \in Seats(g1) |->
                     [g1.players[i] EXCEPT !.score = @ + scores[i]]]
        g2 == [g1 EXCEPT
                 !.players = scored,
                 !.is_finished = g1.is_finished \/ Reached(scored) # {},
                 !.winner = IF Reached(scored) # {} THEN MaxOf(Reached(scored))
                            ELSE g1.winner]
        g3 == IF g2.is_finished THEN g2
              ELSE SetupGame(
                     [g2 EXCEPT
                        !.round_number = @ + 1,
                        !.table = << >>,
                        !.last_capturer = None,
                        !.deck = NewRoundDeck(g2),
                        !.players = [i \in Seats(g2) |->
                            [g2.players[i] EXCEPT !.hand = << >>,
                                                  !.round_captures = << >>]]])
    IN  [g |-> g3, scores |-> scores]

\* end_round, had it kept the first seat that reaches WINNING_SCORE as winner
EndRoundFirstReached(g) ==
    LET give == g.table # << >> /\ g.last_capturer # None
        g1 == IF give
              THEN [g EXCEPT
                      !.players[g.last_capturer].captured_cards = @ \o g.table,
                      !.players[g.last_capturer].round_captures = @ \o g.table,
                      !.table = << >>]
              ELSE g
        scores == CalculateRoundScores(g1)
        scored == [i \in Seats(g1) |->
                     [g1.players[i] EXCEPT !.score = @ + scores[i]]]
        g2 == [g1 EXCEPT
                 !.players = scored,
                 !.is_finished = g1.is_finished \/ Reached(scored) # {},
                 !.winner = IF Reached(scored) # {} THEN (CHOOSE w \in Reached(scored) :
                                     \A v \in Reached(scored) : w <= v)
                            ELSE g1.winner]
        g3 == IF g2.is_finished THEN g2
              ELSE SetupGame(
                     [g2 EXCEPT
                        !.round_number = @ + 1,
                        !.table = << >>,
                        !.last_capturer = None,
                        !.deck = NewRoundDeck(g2),
                        !.players = [i \in Seats(g2) |->
                            [g2.players[i] EXCEPT !.hand = << >>,
                                                  !.round_captures = << >>,
                                                  !.chkobba_count = 0]]])
    IN  [g |-> g3, scores |-> scores]

\* GameState.end_round: <<the state after it, the round scores it returns>>
EndRound(g) ==
    LET give == g.table # << >> /\ g.last_capturer # None
        g1 == IF give
              THEN [g EXCEPT
                      !.players[g.last_capturer].captured_cards = @ \o g.table,
                      !.players[g.last_capturer].round_captures = @ \o g.table,
                      !.table = << >>]
              ELSE g
        scores == CalculateRoundScores(g1)
        scored == [i \in Seats(g1) |->
                     [g1.players[i] EXCEPT !.score = @ + scores[i]]]
        g2 == [g1 EXCEPT
                 !.players = scored,
                 !.is_finished = g1.is_finished \/ Reached(scored) # {},
                 !.winner = IF Reached(scored) # {} THEN MaxOf(Reached(scored))
                            ELSE g1.winner]
        g3 == IF g2.is_finished THEN g2
              ELSE SetupGame(
                     [g2 EXCEPT
                        !.round_number = @ + 1,
                        !.table = << >>,
                        !.last_capturer = None,
                        !.deck = NewRoundDeck(g2),
                        !.players = [i \in Seats(g2) |->
                            [g2.players[i] EXCEPT !.hand = << >>,
                                                  !.round_captures = << >>,
                                                  !.chkobba_count = 0]]])
    IN  [g |-> g3, scores |-> scores]

\* _check_and_deal_cards, had it acted as soon as one hand is empty
CheckAndDealCardsAnyEmpty(g) ==
    LET some_empty == \E i \in Seats(g) : g.players[i].hand = << >>
    IN  IF some_empty /\ Len(g.deck) > 0
        THEN [g |-> DealNewHands(g), dealt |-> TRUE]
        ELSE IF some_empty /\ Len(g.deck) = 0
        THEN [g |-> EndRound(g).g, dealt |-> FALSE]
        ELSE [g |-> g, dealt |-> FALSE]

\* GameState._check_and_deal_cards: <<the state after it, its return value>>
\* _check_and_deal_cards, had it ended the round whenever every hand is empty
CheckAndDealCardsEndsEarly(g) ==
    IF AllHandsEmpty(g) THEN [g |-> EndRound(g).g, dealt |-> FALSE]
    ELSE [g |-> g, dealt |-> FALSE]

CheckAndDealCards(g) ==
    IF AllHandsEmpty(g) /\ Len(g.deck) > 0
    THEN [g |-> DealNewHands(g), dealt |-> TRUE]
    ELSE IF AllHandsEmpty(g) /\ Len(g.deck) = 0
    THEN [g |-> EndRound(g).g, dealt |-> FALSE]
    ELSE [g |-> g, dealt |-> FALSE]

\* play_card that leaves the captured cards on the table
ExecutePlayKeepsTable(g, idx, card, captured_cards) ==
    LET g1 == [g EXCEPT !.players[idx].hand = RemoveFirst(@, card)]
        g2 == IF captured_cards # << >>
              THEN [g1 EXCEPT
                      !.players[idx].captured_cards = @ \o captured_cards,
                      !.players[idx].round_captures = @ \o captured_cards,
                      !.last_capturer = idx]
              ELSE g1
    IN  IF captured_cards = << >>
        THEN [g2 EXCEPT !.table = Append(@, card)]
        ELSE g2

\* play_card that takes every empty table for a chkobba
ExecutePlayChkobbaOnEmptyTable(g, idx, card, captured_cards) ==
    LET g1 == [g EXCEPT !.players[idx].hand = RemoveFirst(@, card)]
        g2 == IF captured_cards # << >>
              THEN [g1 EXCEPT
                      !.players[idx].captured_cards = @ \o captured_cards,
                      !.players[idx].round_captures = @ \o captured_cards,
                      !.last_capturer = idx,
                      !.table = RemoveAll(@, captured_cards)]
              ELSE g1
        g3 == IF g2.table = << >>
              THEN [g2 EXCEPT !.players[idx].chkobba_count = @ + 1]
              ELSE g2
    IN  IF captured_cards = << >>
        THEN [g3 EXCEPT !.table = Append(@, card)]
        ELSE g3

\* The state play_card leaves before it records the move (lines 224-246)
ExecutePlay(g, idx, card, captured_cards) ==
    LET g1 == [g EXCEPT !.players[idx].hand = RemoveFirst(@, card)]
        g2 == IF captured_cards # << >>
              THEN [g1 EXCEPT
                      !.players[idx].captured_cards = @ \o captured_cards,
                      !.players[idx].round_captures = @ \o captured_cards,
                      !.last_capturer = idx,
                      !.table = RemoveAll(@, captured_cards)]
              ELSE g1
        is_chkobba == g2.table = << >> /\ captured_cards # << >>
        g3 == IF is_chkobba
              THEN [g2 EXCEPT !.players[idx].chkobba_count = @ + 1]
              ELSE g2
    IN  IF captured_cards = << >>
        THEN [g3 EXCEPT !.table = Append(@, card)]
        ELSE g3

\* play_card, had it looked for the card in the hand before the turn check
PlayCardHandCheckFirst(g, idx, card, captured_cards) ==
    LET fail(m) == [success |-> FALSE, message |-> m, is_chkobba |-> FALSE,
                    is_haya |-> FALSE, new_cards_dealt |-> FALSE, g |-> g]
        v == ValidateCapture(g, card, captured_cards, idx)
        played == ExecutePlay(g, idx, card, captured_cards)
        is_chkobba == played.table = << >> /\ captured_cards # << >>
        is_haya == Contains(captured_cards, Haya)
        logged == [played EXCEPT !.move_history = Append(@,
                     [player |-> idx, card |-> card, captured |-> captured_cards,
                      is_chkobba |-> is_chkobba, is_haya |-> is_haya])]
        dealt == CheckAndDealCards(logged)
    IN  IF ~Contains(g.players[idx].hand, card) THEN fail("not_in_hand")
        ELSE IF g.current_player # idx THEN fail("not_your_turn")
        ELSE IF ~v.ok THEN fail(v.msg)
        ELSE [success |-> TRUE, message |-> "played", is_chkobba |-> is_chkobba,
              is_haya |-> is_haya, new_cards_dealt |-> dealt.dealt, g |-> dealt.g]

\* play_card, had it written its log entry before the checks, for rejected
\* plays too
PlayCardLogsEveryCall(g, idx, card, captured_cards) ==
    LET entry(c, h) == [player |-> idx, card |-> card, captured |-> captured_cards,
                        is_chkobba |-> c, is_haya |-> h]
        fail(m) == [success |-> FALSE, message |-> m, is_chkobba |-> FALSE,
                    is_haya |-> FALSE, new_cards_dealt |-> FALSE,
                    g |-> [g EXCEPT !.move_history = Append(@, entry(FALSE, FALSE))]]
        v == ValidateCapture(g, card, captured_cards, idx)
        played == ExecutePlay(g, idx, card, captured_cards)
        is_chkobba == played.table = << >> /\ captured_cards # << >>
        is_haya == Contains(captured_cards, Haya)
        logged == [played EXCEPT !.move_history = Append(@, entry(is_chkobba, is_haya))]
        dealt == CheckAndDealCards(logged)
    IN  IF g.current_player # idx THEN fail("not_your_turn")
        ELSE IF ~Contains(g.players[idx].hand, card) THEN fail("not_in_hand")
        ELSE IF ~v.ok THEN fail(v.msg)
        ELSE [success |-> TRUE, message |-> "played", is_chkobba |-> is_chkobba,
              is_haya |-> is_haya, new_cards_dealt |-> dealt.dealt, g |-> dealt.g]

\* GameState.play_card: the result dictionary and the state it leaves
\* play_card, had it taken the card out of the hand before validating
PlayCardRemovesBeforeValidating(g, idx, card, captured_cards) ==
    LET fail(m, h) == [success |-> FALSE, message |-> m, is_chkobba |-> FALSE,
                       is_haya |-> FALSE, new_cards_dealt |-> FALSE, g |-> h]
        v == ValidateCapture(g, card, captured_cards, idx)
        taken == [g EXCEPT !.players[idx].hand = RemoveFirst(@, card)]
        played == ExecutePlay(g, idx, card, captured_cards)
        is_chkobba == played.table = << >> /\ captured_cards # << >>
        is_haya == Contains(captured_cards, Haya)
        logged == [played EXCEPT !.move_history = Append(@,
                     [player |-> idx, card |-> card, captured |-> captured_cards,
                      is_chkobba |-> is_chkobba, is_haya |-> is_haya])]
        dealt == CheckAndDealCards(logged)
    IN  IF g.current_player # idx THEN fail("not_your_turn", g)
        ELSE IF ~Contains(g.players[idx].hand, card) THEN fail("not_in_hand", g)
        ELSE IF ~v.ok THEN fail(v.msg, taken)
        ELSE [success |-> TRUE, message |-> "played", is_chkobba |-> is_chkobba,
              is_haya |-> is_haya, new_cards_dealt |-> dealt.dealt, g |-> dealt.g]

PlayCard(g, idx, card, captured_cards) ==
    LET fail(m) == [success |-> FALSE, message |-> m, is_chkobba |-> FALSE,
                    is_haya |-> FALSE, new_cards_dealt |-> FALSE, g |-> g]
        v == ValidateCapture(g, card, captured_cards, idx)
        played == ExecutePlay(g, idx, card, captured_cards)
        is_chkobba == played.table = << >> /\ captured_cards # << >>
        is_haya == Contains(captured_cards, Haya)
        logged == [played EXCEPT !.move_history = Append(@,
                     [player |-> idx, card |-> card, captured |-> captured_cards,
                      is_chkobba |-> is_chkobba, is_haya |-> is_haya])]
        dealt == CheckAndDealCards(logged)
    IN  IF g.current_player # idx THEN fail("not_your_turn")
        ELSE IF ~Contains(g.players[idx].hand, card) THEN fail("not_in_hand")
        ELSE IF ~v.ok THEN fail(v.msg)
        ELSE [success |-> TRUE, message |-> "played", is_chkobba |-> is_chkobba,
              is_haya |-> is_haya, new_cards_dealt |-> dealt.dealt, g |-> dealt.g]

\* next_turn, had it counted the seats on without wrapping around
NextTurnNoWrap(g) ==
    IF g.is_finished THEN g
    ELSE [g EXCEPT !.current_player = @ + 1]

\* next_turn, had it passed over the next seat
NextTurnSkipsSeat(g) ==
    IF g.is_finished THEN g
    ELSE [g EXCEPT !.current_player = (@ + 2) % g.num_players]

\* GameState.next_turn
NextTurn(g) ==
    IF g.is_finished THEN g
    ELSE [g EXCEPT !.current_player = (@ + 1) % g.num_players]

\* GameState.get_legal_moves: the list of <<card, captured>> pairs
RECURSIVE CaptureMoves(_, _)
CaptureMoves(g, hand) ==
    IF hand = << >> THEN << >>
    ELSE LET caps == FindCaptures(g, Head(hand))
         IN  [k \in 1..Len(caps) |-> [card |-> Head(hand), captured |-> caps[k]]]
             \o CaptureMoves(g, Tail(hand))

\* get_legal_moves without the plays that capture nothing
GetLegalMovesCapturesOnly(g, idx) == CaptureMoves(g, g.players[idx].hand)

GetLegalMoves(g, idx) ==
    LET hand == g.players[idx].hand
    IN  CaptureMoves(g, hand)
        \o [k \in 1..Len(hand) |-> [card |-> hand[k], captured |-> << >>]]

\* ---------------------------------------------------------------- AIPlayer
\* AIPlayer._medium_move: the score of one move
MediumScore(g, m) ==
      (IF Contains(m.captured, Haya) THEN HayaBonus ELSE 0)
    + (IF Len(m.captured) = Len(g.table) THEN MediumChkobbaBonus ELSE 0)
    + SumValues(m.captured)

\* _medium_move, had it played the first hand card without looking at the
\* table
MediumMoveFirstCard(g, idx) == [card |-> g.players[idx].hand[1], captured |-> << >>]

\* _medium_move, had it replaced the best move on an equal score too
MediumMoveLastMax(g, idx) ==
    LET moves == GetLegalMoves(g, idx)
        k == CHOOSE k \in DOMAIN moves :
                /\ \A j \in DOMAIN moves : MediumScore(g, moves[j]) <= MediumScore(g, moves[k])
                /\ \A j \in (k + 1)..Len(moves) :
                      MediumScore(g, moves[j]) < MediumScore(g, moves[k])
    IN  moves[k]

\* the first move of the list whose score no move exceeds (best_score starts
\* at -1 and is replaced only by a strictly greater score)
MediumMove(g, idx) ==
    LET moves == GetLegalMoves(g, idx)
        k == CHOOSE k \in DOMAIN moves :
                /\ \A j \in DOMAIN moves : MediumScore(g, moves[j]) <= MediumScore(g, moves[k])
                /\ \A j \in 1..(k - 1) : MediumScore(g, moves[j]) < MediumScore(g, moves[k])
    IN  moves[k]

\* AIPlayer._evaluate_move without its random term, times two (the source's
\* 1.5 per captured card becomes 3)
MaxTableValue(g) ==
    IF g.table = << >> THEN 0 ELSE MaxOf({Value(g.table[i]) : i \in DOMAIN g.table})

HardScore2(g, m) ==
      (IF Contains(m.captured, Haya) THEN 2 * HayaBonus ELSE 0)
    + (IF Len(m.captured) = Len(g.table) THEN HardChkobbaBonus2 ELSE 0)
    + HardValueWeight2 * SumValues(m.captured)
    - (IF Value(m.card) < MaxTableValue(g) /\ m.captured = << >> THEN HardPenalty2 ELSE 0)
    + HardCountWeight2 * Len(m.captured)

\* _hard_move, had it returned a move only when that move wins for every
\* draw of the random terms
HardMovesSureWinner(g, idx) ==
    LET moves == GetLegalMoves(g, idx)
    IN  {moves[k] : k \in {k \in DOMAIN moves :
            \A j \in DOMAIN moves \ {k} :
                HardScore2(g, moves[k]) - HardScore2(g, moves[j]) >= HardNoiseSpan2}}

\* AIPlayer._hard_move: a move wins for some draw of the random terms
\* (each in [-5, 5), twice that here) iff no other move's score exceeds its
\* own by the width of the noise or more
HardMoves(g, idx) ==
    LET moves == GetLegalMoves(g, idx)
    IN  {moves[k] : k \in {k \in DOMAIN moves :
            \A j \in DOMAIN moves :
                HardScore2(g, moves[j]) - HardScore2(g, moves[k]) < HardNoiseSpan2}}

\* AIPlayer.choose_move: the moves the policy can return (empty: "no move")
ChooseMove(level, g, idx) ==
    LET moves == GetLegalMoves(g, idx)
    IN  IF moves = << >> THEN {}
        ELSE IF level = "easy" THEN Range(moves)
        ELSE IF level = "medium" THEN {MediumMove(g, idx)}
        ELSE HardMoves(g, idx)

\* ------------------------------------------------------------ room state
VARIABLES
    game_state,     \* active_games[room_id]: the GameState object
    ai_players,     \* ai_players[room_id]: seat -> difficulty of its AIPlayer
    target_score,   \* room_settings[room_id]['target_score']
    timer,          \* turn_timers[room_id]: is the Timer still waiting, and
                    \*   the number of plays made when it was armed
    net,            \* handle_play_card: where it is and its player_index
    timeout,        \* timeout_handler of the Timer that expired
    ai_tasks,       \* ai_move threads started and still in their think time
    ai,             \* the ai_move thread that woke up
    room_open       \* room_id is a key of active_games and room_players

vars ==
    <<game_state, ai_players, target_score, timer, net, timeout, ai_tasks, ai,
      room_open>>

AI_LEVELS == {"easy", "medium", "hard"}

\* The rooms explored: <<level of the AI seats, target score>>; create_room
\* accepts the targets 11 and 21
Rooms == {<<"easy", 11>>, <<"medium", 21>>, <<"hard", 21>>}

Idle == [pc |-> "idle", idx |-> None, armed_at |-> None]

Plays == Len(game_state.move_history)

\* is_ai_player
IsAiPlayer(idx) == idx \in DOMAIN ai_players

HumanSeats == Seats(game_state) \ DOMAIN ai_players

\* create_room and join_room_endpoint, then handle_start_game: seat 0 is the
\* human who created the room, the other seats are AIPlayers of one level;
\* the game is dealt and process_next_turn armed the timer of seat 0
Init ==
    /\ game_state = NewGameState(DefaultPlayers, Shuffled)
    /\ \E room \in Rooms :
          /\ room[1] \in AI_LEVELS
          /\ ai_players = [i \in 1..(DefaultPlayers - 1) |-> room[1]]
          /\ target_score = room[2]
    /\ timer = [live |-> TRUE, armed_at |-> 0]
    /\ net = Idle
    /\ timeout = Idle
    /\ ai_tasks = 0
    /\ ai = Idle
    /\ room_open = TRUE

\* check_round_end: <<the state after it, its return value>>
CheckRoundEnd(g) ==
    IF AllHandsEmpty(g) /\ Len(g.deck) = 0
    THEN [g |-> EndRound(g).g, round_ended |-> TRUE]
    ELSE [g |-> g, round_ended |-> FALSE]

\* process_next_turn, had it armed the timer for every seat
ProcessNextTurnArmsAlways(g) ==
    IF g.is_finished THEN "game_ended"
    ELSE "timer"

\* process_next_turn: what it starts for the state it reads
ProcessNextTurn(g) ==
    IF g.is_finished THEN "game_ended"
    ELSE IF IsAiPlayer(g.current_player) THEN "ai"
    ELSE "timer"

\* start_turn_timer / trigger_ai_turn as process_next_turn calls them
Dispatch(what, g) ==
    /\ timer' = IF what = "timer"
                THEN [live |-> TRUE, armed_at |-> Len(g.move_history)]
                ELSE timer
    /\ ai_tasks' = IF what = "ai" THEN ai_tasks + 1 ELSE ai_tasks

\* The part all three movers share after a successful play_card:
\* check_round_end, and unless the round ended next_turn and
\* process_next_turn
AfterPlay ==
    LET c == CheckRoundEnd(game_state)
        g == IF c.round_ended THEN c.g ELSE NextTurn(c.g)
    IN  IF room_open
        THEN /\ game_state' = g
             /\ Dispatch(IF c.round_ended THEN "none" ELSE ProcessNextTurn(g), g)
        \* the room was closed during db.record_move: check_round_end finds
        \* no game and returns None, so next_turn runs on the GameState the
        \* mover holds; process_next_turn finds no game and returns
        ELSE /\ game_state' = NextTurn(game_state)
             /\ Dispatch("none", game_state)

WithinRounds == game_state.round_number <= MaxRounds

\* The plays explored: any inside the opening, the heuristic one after it;
\* and no more than MaxStale while a timeout_handler sleeps
Explored(idx, card, captured_cards) ==
    /\ WithinRounds
    /\ \/ Plays < Window
       \/ [card |-> card, captured |-> captured_cards] = MediumMove(game_state, idx)
    /\ timeout.pc = "sleep" => Plays - timeout.armed_at < MaxStale

\* What a client sends as captured_cards with a card: a set the engine
\* offers, nothing, or a list that validation has to turn down
CaptureInputs(g, card) ==
    Range(FindCaptures(g, card)) \cup {<< >>}
      \cup (IF g.table = << >> THEN {}
            ELSE {<<g.table[1]>>, <<g.table[1], g.table[1]>>, g.table})
      \cup (IF g.deck = << >> THEN {} ELSE {<<g.deck[1]>>})

CardInputs(g, seat) ==
    Range(g.players[seat].hand) \cup (IF g.table = << >> THEN {} ELSE {g.table[1]})

\* handle_play_card up to db.record_move, play_card accepted
HandlePlayCard(seat, card, captured_cards) ==
    LET r == PlayCard(game_state, seat, card, captured_cards)
    IN  /\ net.pc = "idle"
        /\ room_open
        /\ r.success
        /\ Explored(seat, card, captured_cards)
        /\ timer' = [timer EXCEPT !.live = FALSE]
        /\ game_state' = r.g
        /\ net' = [Idle EXCEPT !.pc = "played", !.idx = seat]
        /\ UNCHANGED <<ai_players, target_score, timeout, ai_tasks, ai, room_open>>

\* handle_play_card, play_card rejected: the timer was cancelled, the error
\* is emitted
HandlePlayCardRejected(seat, card, captured_cards) ==
    LET r == PlayCard(game_state, seat, card, captured_cards)
    IN  /\ net.pc = "idle"
        /\ room_open
        /\ ~r.success
        /\ timer' = [timer EXCEPT !.live = FALSE]
        /\ game_state' = r.g
        /\ UNCHANGED <<ai_players, target_score, net, timeout, ai_tasks, ai,
                       room_open>>

\* handle_play_card after db.record_move
HandlePlayCardAfter ==
    /\ net.pc = "played"
    /\ AfterPlay
    /\ net' = Idle
    /\ UNCHANGED <<ai_players, target_score, timeout, ai, room_open>>

\* threading.Timer: the 10 s passed without a cancel, timeout_handler starts
\* and sleeps; cancel() has no effect on it from here on
TimerExpires ==
    /\ timer.live
    /\ timeout.pc = "idle"
    /\ WithinRounds
    /\ timer.armed_at < TimerWindow
    /\ timer' = [timer EXCEPT !.live = FALSE]
    /\ timeout' = [Idle EXCEPT !.pc = "sleep", !.armed_at = timer.armed_at]
    /\ UNCHANGED <<game_state, ai_players, target_score, net, ai_tasks, ai, room_open>>

\* timeout_handler from the end of its sleep up to db.record_move
TimeoutHandler ==
    LET g == game_state
        idx == g.current_player
        hand == g.players[idx].hand
        r == PlayCard(g, idx, hand[1], << >>)
    IN  /\ timeout.pc = "sleep"
        /\ IF room_open /\ ~IsAiPlayer(idx) /\ hand # << >> /\ r.success
           THEN /\ game_state' = r.g
                /\ timeout' = [timeout EXCEPT !.pc = "played", !.idx = idx]
           ELSE /\ game_state' = IF room_open /\ ~IsAiPlayer(idx) /\ hand # << >>
                                   THEN r.g ELSE g
                /\ timeout' = Idle
        /\ UNCHANGED <<ai_players, target_score, timer, net, ai_tasks, ai, room_open>>

\* timeout_handler after db.record_move
TimeoutHandlerAfter ==
    /\ timeout.pc = "played"
    /\ AfterPlay
    /\ timeout' = Idle
    /\ UNCHANGED <<ai_players, target_score, net, ai, room_open>>

\* ai_move from the end of its think time up to db.record_move, for the
\* move m that choose_move returned
AiMove(m) ==
    LET g == game_state
        idx == g.current_player
        r == PlayCard(g, idx, m.card, m.captured)
    IN  /\ ai_tasks > 0
        /\ ai.pc = "idle"
        /\ room_open
        /\ WithinRounds
        /\ IsAiPlayer(idx)
        /\ m \in ChooseMove(ai_players[idx], g, idx)
        /\ ai_tasks' = ai_tasks - 1
        /\ IF r.success
           THEN /\ Explored(idx, m.card, m.captured)
                /\ game_state' = r.g
                /\ ai' = [Idle EXCEPT !.pc = "played", !.idx = idx]
           ELSE /\ game_state' = r.g
                /\ ai' = [Idle EXCEPT !.pc = "failed", !.idx = idx]
        /\ UNCHANGED <<ai_players, target_score, timer, net, timeout, room_open>>

\* ai_move that returns before play_card: the room has no game, the current
\* seat is not an AI seat, or choose_move found no move
AiMoveReturns ==
    LET g == game_state
        idx == g.current_player
    IN  /\ ai_tasks > 0
        /\ ai.pc = "idle"
        /\ IF room_open /\ IsAiPlayer(idx)
           THEN ChooseMove(ai_players[idx], g, idx) = {}
           ELSE TRUE
        /\ ai_tasks' = ai_tasks - 1
        /\ UNCHANGED <<game_state, ai_players, target_score, timer, net, timeout, ai, room_open>>

\* ai_move after db.record_move
AiMoveAfter ==
    /\ ai.pc = "played"
    /\ AfterPlay
    /\ ai' = Idle
    /\ UNCHANGED <<ai_players, target_score, net, timeout, room_open>>

\* ai_move past its "AI move failed" log line: the thread is gone
AiMoveFailed ==
    /\ ai.pc = "failed"
    /\ ai' = Idle
    /\ UNCHANGED <<game_state, ai_players, target_score, timer, net, timeout, ai_tasks, room_open>>

\* handle_close_room: the Timer is cancelled and dropped, then the room's
\* entries of active_games, room_players, player_id_to_index, ai_players and
\* room_settings are deleted; room_settings is read by no step after that.
\* Threads that hold the GameState keep it.
CloseRoom ==
    /\ room_open
    /\ Plays < CloseWindow
    /\ room_open' = FALSE
    /\ timer' = [timer EXCEPT !.live = FALSE]
    /\ ai_players' = << >>
    /\ UNCHANGED <<game_state, target_score, net, timeout, ai_tasks, ai>>

\* a play_card message of a client that play_card accepts
PlayCardMessage ==
    \E seat \in HumanSeats :
      \E card \in CardInputs(game_state, seat) :
        \E captured_cards \in CaptureInputs(game_state, card) :
           HandlePlayCard(seat, card, captured_cards)

\* a play_card message of a client that play_card rejects
PlayCardMessageRejected ==
    \E seat \in HumanSeats :
      \E card \in CardInputs(game_state, seat) :
        \E captured_cards \in CaptureInputs(game_state, card) :
           HandlePlayCardRejected(seat, card, captured_cards)

\* an ai_move thread wakes from its delay with the move its policy chooses
AiMoveWakes ==
    \E m \in Range(GetLegalMoves(game_state, game_state.current_player)) : AiMove(m)

Next ==
    \/ PlayCardMessage
    \/ PlayCardMessageRejected
    \/ HandlePlayCardAfter
    \/ TimerExpires
    \/ TimeoutHandler
    \/ TimeoutHandlerAfter
    \/ AiMoveWakes
    \/ AiMoveReturns
    \/ AiMoveAfter
    \/ AiMoveFailed
    \/ CloseRoom

Spec == Init /\ [][Next]_vars

\* ------------------------------------------------- end-of-round positions
\* The scoring of a round is explored on its own, from the positions in
\* which play_card reaches _check_and_deal_cards after the last card of a
\* round: hands and deck are empty and the cards are in the round-capture
\* piles.  The piles are consecutive runs of one of three orders of the 40
\* cards, cut at the points of SplitPoints; the cards after the last cut are
\* in no pile.
NaturalOrder == [c \in 1..DeckSize |-> c]

\* 21 cards with the 7 of Diamonds and 4 more diamonds, then 16 cards with 3
\* diamonds, then two diamonds and the 7 of Clubs
ExampleOrder ==
    <<17, 11, 12, 13, 14,  1,  2,  3,  4,  5,  6,  7,  8,  9, 10, 31, 32, 33,
      34, 35, 36, 15, 16, 18, 37, 38, 39, 40, 21, 22, 23, 24, 25, 26, 28, 29,
      30, 19, 20, 27>>

PileOrders == {NaturalOrder, Shuffled, ExampleOrder}

SplitPoints == {0, 8, 16, 19, 20, 21, 24, 37, 40}

ScorePlayers == {2, 3}

\* A GameState whose seats hold the piles cut from order at the points
\* cuts[0] <= cuts[1] <= ..., with the chkobba counters chk
RoundEndPosition(n, order, cuts, chk) ==
    LET start(i) == IF i = 0 THEN 1 ELSE cuts[i - 1] + 1
        pile(i) == SubSeq(order, start(i), cuts[i])
    IN  [num_players |-> n,
         deck |-> << >>,
         players |-> [i \in 0..(n - 1) |->
                        [hand |-> << >>, score |-> 0, chkobba_count |-> chk[i],
                         captured_cards |-> pile(i), round_captures |-> pile(i)]],
         table |-> << >>,
         current_player |-> 0,
         round_number |-> 1,
         move_history |-> << >>,
         is_finished |-> FALSE,
         winner |-> None,
         last_capturer |-> None]

ScoreInit ==
    /\ \E n \in ScorePlayers :
         \E order \in PileOrders :
           \E cuts \in [0..(n - 1) -> SplitPoints] :
             \E chk \in [0..(n - 1) -> 0..MaxChkobba] :
                /\ \A i \in 1..(n - 1) : cuts[i - 1] <= cuts[i]
                /\ game_state = RoundEndPosition(n, order, cuts, chk)
                /\ ai_players = [i \in 1..(n - 1) |-> "medium"]
    /\ target_score = WINNING_SCORE
    /\ timer = [live |-> FALSE, armed_at |-> 0]
    /\ net = Idle
    /\ timeout = Idle
    /\ ai_tasks = 0
    /\ ai = Idle
    /\ room_open = TRUE

\* the tail of play_card: _check_and_deal_cards finds every hand and the
\* deck empty and calls end_round
ScoreRound ==
    /\ AllHandsEmpty(game_state)
    /\ game_state.deck = << >>
    /\ ~game_state.is_finished
    /\ game_state' = CheckAndDealCards(game_state).g
    /\ UNCHANGED <<ai_players, target_score, timer, net, timeout, ai_tasks, ai, room_open>>

ScoreNext == ScoreRound

ScoreSpec == ScoreInit /\ [][ScoreNext]_vars

\* -------------------------------------- end-of-round positions with a table
\* The positions before the last play of a round: the deck is empty, the
\* last seat holds one card and it is its turn.  The piles are cut from an
\* order of the cards as above, the table holds the next cards of that
\* order and the hand the card after them; the last capturer is a seat with
\* a pile (no seat when no pile holds a card).  A later round has scores and
\* captured cards of the rounds before it.
LeftoverCuts == {0, 10, 21, 30}

LeftoverSizes == {0, 2, 5}

PastRounds ==
    {[round |-> 1, score |-> 0, earlier |-> << >>],
     [round |-> 4, score |-> 19, earlier |-> <<1, 17>>]}

LeftoverPosition(n, order, cuts, chk, size, lc, past) ==
    LET p == RoundEndPosition(n, order, cuts, chk)
        from == cuts[n - 1] + 1
        to == IF cuts[n - 1] + size > DeckSize THEN DeckSize ELSE cuts[n - 1] + size
    IN  [p EXCEPT
           !.table = SubSeq(order, from, to),
           !.last_capturer = lc,
           !.round_number = past.round,
           !.current_player = n - 1,
           !.players = [i \in 0..(n - 1) |->
                          [p.players[i] EXCEPT
                             !.hand = IF i = n - 1 THEN <<order[to + 1]>> ELSE << >>,
                             !.score = past.score,
                             !.captured_cards = past.earlier \o @]]]

LeftoverInit ==
    /\ \E n \in ScorePlayers :
         \E order \in PileOrders :
           \E cuts \in [0..(n - 1) -> LeftoverCuts] :
             \E chk \in [0..(n - 1) -> 0..MaxChkobba] :
               \E size \in LeftoverSizes :
                 \E lc \in {None} \cup 0..(n - 1) :
                   \E past \in PastRounds :
                      LET g == LeftoverPosition(n, order, cuts, chk, size, lc, past)
                      IN  /\ \A i \in 1..(n - 1) : cuts[i - 1] <= cuts[i]
                          /\ \A i \in 0..(n - 1) :
                                chk[i] > 0 => g.players[i].round_captures # << >>
                          /\ IF lc = None
                             THEN \A i \in 0..(n - 1) :
                                     g.players[i].round_captures = << >>
                             ELSE g.players[lc].round_captures # << >>
                          /\ game_state = g
                          /\ ai_players = [i \in 1..(n - 1) |-> "medium"]
    /\ target_score = WINNING_SCORE
    /\ timer = [live |-> FALSE, armed_at |-> 0]
    /\ net = Idle
    /\ timeout = Idle
    /\ ai_tasks = 0
    /\ ai = Idle
    /\ room_open = TRUE

\* play_card of the last card of the round, with a capture list play_card
\* accepts: its _check_and_deal_cards calls end_round
LastPlay ==
    LET g == game_state
        idx == g.current_player
    IN  /\ g.deck = << >>
        /\ g.move_history = << >>
        /\ Len(g.players[idx].hand) = 1
        /\ \A i \in Seats(g) \ {idx} : g.players[i].hand = << >>
        /\ \E captured_cards \in CaptureInputs(g, g.players[idx].hand[1]) :
              LET r == PlayCard(g, idx, g.players[idx].hand[1], captured_cards)
              IN  /\ r.success
                  /\ game_state' = r.g
        /\ UNCHANGED <<ai_players, target_score, timer, net, timeout, ai_tasks, ai,
                       room_open>>

LeftoverNext == LastPlay

LeftoverSpec == LeftoverInit /\ [][LeftoverNext]_vars

\* ------------------------------------------------------------------ claims
RECURSIVE HandsFrom(_, _)
HandsFrom(g, i) ==
    IF i >= g.num_players THEN << >> ELSE g.players[i].hand \o HandsFrom(g, i + 1)

RECURSIVE PilesFrom(_, _)
PilesFrom(g, i) ==
    IF i >= g.num_players THEN << >>
    ELSE g.players[i].round_captures \o PilesFrom(g, i + 1)

AllHands(g) == HandsFrom(g, 0)

AllPiles(g) == PilesFrom(g, 0)

\* every place a card can be in
Places(g) == AllHands(g) \o g.table \o AllPiles(g) \o g.deck

CurrentHand == game_state.players[game_state.current_player].hand

AllCanCapture(g, idx) ==
    /\ g.players[idx].hand # << >>
    /\ ~HasNonCapturingCard(g, idx)

LastMove == game_state.move_history[Plays]

\* a play was accepted by this step
PlayAccepted == Len(game_state'.move_history) = Plays + 1

\* C1: the hands, the table, the round-capture piles and the deck hold 40
\* cards together.
CardCountIs40 == Len(Places(game_state)) = DeckSize

\* C2: no card is in two places (hands, table, round-capture piles, deck)
\* at once, nor twice in one place.
NoCardInTwoPlaces ==
    LET places == Places(game_state)
    IN  Cardinality(Range(places)) = Len(places)

\* captures were made, a round ended and the next one was dealt from a
\* new deck, and a capture was made in it
CardsMovedAcrossRounds ==
    /\ game_state.round_number = 2
    /\ \A i \in Seats(game_state) : game_state.players[i].round_captures # << >>
    /\ LastMove.captured # << >>

\* C3: plays are serialised: the k-th accepted play is by seat (k-1) mod
\* num_players, so no seat plays twice in its turn and none is skipped.
PlaysInSeatOrder ==
    \A k \in DOMAIN game_state.move_history :
        game_state.move_history[k].player = (k - 1) % game_state.num_players

\* C4: a timeout_handler that wakes after a play landed since its timer
\* was armed changes nothing in the game.
StaleTimeoutIsNoOp ==
    [][(timeout.pc = "sleep" /\ timeout'.pc # "sleep" /\ Plays > timeout.armed_at)
         => game_state' = game_state]_vars

\* C5: a timeout_handler that wakes in the turn its timer was armed for,
\* nothing having been played, gets the first hand card of the current
\* human seat accepted with no captures.
TimeoutPlaysFirstCard ==
    [][(/\ room_open
        /\ timeout.pc = "sleep"
        /\ timeout'.pc # "sleep"
        /\ Plays = timeout.armed_at
        /\ net.pc = "idle"
        /\ ~game_state.is_finished
        /\ ~IsAiPlayer(game_state.current_player)
        /\ CurrentHand # << >>)
         => /\ PlayAccepted
            /\ game_state'.move_history[Plays + 1].player = game_state.current_player
            /\ game_state'.move_history[Plays + 1].card = CurrentHand[1]
            /\ game_state'.move_history[Plays + 1].captured = << >>
            /\ timeout'.pc = "played"]_vars

\* C6: while the unfinished game of an open room awaits a human seat with
\* cards in hand and
\* no accepted play is waiting for its seat advance, the turn timer is
\* pending or its handler is about to run, so that the turn is resolved
\* without the client: rejected messages do not take the timeout away.
NoPlayPending == net.pc # "played" /\ timeout.pc # "played" /\ ai.pc # "played"

HumanTurnHasTimeout ==
    (/\ room_open
     /\ ~game_state.is_finished
     /\ ~IsAiPlayer(game_state.current_player)
     /\ CurrentHand # << >>
     /\ NoPlayPending)
      => timer.live \/ timeout.pc = "sleep"

\* C7: an ai_move that wakes in the turn of an AI seat with cards in hand,
\* the game unfinished, gets a play accepted (the policy's move or the
\* fallback).
AiTaskPlays ==
    [][(/\ room_open
        /\ ai.pc = "idle"
        /\ ai_tasks = 1
        /\ ai_tasks' = 0
        /\ NoPlayPending
        /\ timeout.pc = "idle"
        /\ PlaysInSeatOrder
        /\ ~game_state.is_finished
        /\ IsAiPlayer(game_state.current_player)
        /\ CurrentHand # << >>)
         => PlayAccepted]_vars

\* C8: the game is finished exactly when some seat's score has reached the
\* room's target score.
FinishedIffTargetReached ==
    game_state.is_finished
      <=> \E i \in Seats(game_state) : game_state.players[i].score >= target_score

\* C9: scores change only in the step that plays the last card of a round,
\* and in the round that ends the game by that round's scores.
ScoresChange ==
    \E i \in Seats(game_state) :
        game_state'.players[i].score # game_state.players[i].score

ScoredOncePerRound ==
    [][ScoresChange
         => /\ PlayAccepted
            /\ AllHandsEmpty(game_state') \/ game_state'.round_number # game_state.round_number
            /\ game_state'.is_finished =>
                  \A i \in Seats(game_state) :
                      game_state'.players[i].score
                        = game_state.players[i].score + CalculateRoundScores(game_state')[i]]_vars

TablePairs(g) == {<<g.table[i], g.table[j]>> : i, j \in DOMAIN g.table}

ProposedCaptures(g, card) ==
    CaptureInputs(g, card) \cup TablePairs(g)
      \cup Range(CombosFrom(g.table, 2, Value(card)))

\* C11: for a hand card of the current seat whose value some table card
\* has, every proposed capture of two or more cards is rejected as
\* combo-not-allowed, and each single table card of that value is an
\* accepted capture.
CapturePrecedence ==
    LET g == game_state
        idx == g.current_player
    IN  \A k \in DOMAIN g.players[idx].hand :
            LET card == g.players[idx].hand[k]
            IN  (\E i \in DOMAIN g.table : Value(g.table[i]) = Value(card))
                  => /\ \A caps \in ProposedCaptures(g, card) :
                          Len(caps) >= 2 =>
                            LET r == PlayCard(g, idx, card, caps)
                            IN  ~r.success /\ r.message = "combo_not_allowed"
                     /\ \A i \in DOMAIN g.table :
                          Value(g.table[i]) = Value(card) =>
                            PlayCard(g, idx, card, <<g.table[i]>>).success

\* the current seat holds a card that a single table card matches while
\* two or more other table cards sum to its value
MatchAndComboOnTable ==
    \E k \in DOMAIN CurrentHand :
        /\ \E i \in DOMAIN game_state.table :
              Value(game_state.table[i]) = Value(CurrentHand[k])
        /\ CombosFrom(game_state.table, 2, Value(CurrentHand[k])) # << >>

Pile(i) == game_state.players[i].round_captures

Diamonds(i) == Cardinality({k \in DOMAIN Pile(i) : Suit(Pile(i)[k]) = 1})

StrictMaxCards(i) == \A j \in Seats(game_state) \ {i} : Len(Pile(j)) < Len(Pile(i))

\* C13: a seat gets the most-cards point iff its round-capture count is
\* strictly greater than every other seat's and at least 21; when two or
\* more seats share the maximum count no seat gets it.
MostCardsRule ==
    /\ \A i \in Seats(game_state) :
          MostCardsPoint(game_state, i) <=> (StrictMaxCards(i) /\ Len(Pile(i)) >= 21)
    /\ (\E i, j \in Seats(game_state) :
            /\ i # j
            /\ Len(Pile(i)) = Len(Pile(j))
            /\ \A k \in Seats(game_state) : Len(Pile(k)) <= Len(Pile(i)))
          => \A i \in Seats(game_state) : ~MostCardsPoint(game_state, i)

\* a round of three seats was scored in which one seat held 21 cards or
\* more, strictly more than the two other seats, which tied below it
SoleWinnerOverTie ==
    /\ game_state.num_players = 3
    /\ game_state.round_number = 2
    /\ \E i \in Seats(game_state) :
          /\ Len(game_state.players[i].captured_cards) >= 21
          /\ game_state.players[i].score >= 1
          /\ \E j, k \in Seats(game_state) \ {i} :
                /\ j # k
                /\ Len(game_state.players[j].captured_cards)
                     = Len(game_state.players[k].captured_cards)
                /\ Len(game_state.players[j].captured_cards) > 0
                /\ Len(game_state.players[j].captured_cards)
                     < Len(game_state.players[i].captured_cards)

Point(b) == IF b THEN 1 ELSE 0

Composition(i) ==
      Point(StrictMaxCards(i) /\ Len(Pile(i)) >= 21)
    + Point(Diamonds(i) > 0
            /\ \A j \in Seats(game_state) \ {i} : Diamonds(j) < Diamonds(i))
    + Point(\E k \in DOMAIN Pile(i) : Pile(i)[k] = 17)
    + Point(\E k \in DOMAIN Pile(i) : Pile(i)[k] = 27)
    + game_state.players[i].chkobba_count

\* C14: the scoring of a round adds to each seat's score [strict untied
\* maximum card count >= 21] + [strict untied maximum diamond count > 0] +
\* [pile holds the 7 of Diamonds] + [pile holds the 7 of Clubs] + chkobba
\* counter.
RoundScoreComposition ==
    [][\A i \in Seats(game_state) :
          game_state'.players[i].score
            = game_state.players[i].score + Composition(i)]_vars

\* the scenario of 21 cards with the 7 of Diamonds and 5 diamonds against a
\* pile with 3 diamonds and one chkobba was scored 3 and 1
ExampleScored ==
    /\ game_state.num_players = 2
    /\ game_state.round_number = 2
    /\ Len(game_state.players[0].captured_cards) = 21
    /\ Contains(game_state.players[0].captured_cards, Haya)
    /\ Cardinality({k \in 1..21 : IsDiamond(game_state.players[0].captured_cards[k])}) = 5
    /\ Cardinality({k \in DOMAIN game_state.players[1].captured_cards :
                       IsDiamond(game_state.players[1].captured_cards[k])}) = 3
    /\ game_state.players[0].score = 3
    /\ game_state.players[1].score = 1

\* the failure messages of play_card
Rejections ==
    {"not_your_turn", "not_in_hand", "must_capture", "combo_not_allowed",
     "not_on_table", "sum_mismatch", "invalid_combination"}

\* C15: a rejected play_card, whichever of the seven reasons applies, is
\* returned as a failure value with that reason and leaves the whole game
\* state as it was: hands, table, piles, counters, scores, current seat, last
\* capturer, deck, round number and move log.
RejectedPlayChangesNothing ==
    \A seat \in Seats(game_state) :
      \A card \in CardInputs(game_state, seat) :
        \A caps \in ProposedCaptures(game_state, card) :
          LET r == PlayCard(game_state, seat, card, caps)
          IN  /\ r.success <=> r.message = "played"
              /\ ~r.success =>
                    /\ r.message \in Rejections
                    /\ r.g = game_state
              /\ r.success =>
                    /\ seat = game_state.current_player
                    /\ Len(r.g.move_history) = Plays + 1

\* a position in which each of the seven rejections is the answer to some
\* proposed play
EveryRejectionOccurs ==
    \A m \in Rejections :
      \E seat \in Seats(game_state) :
        \E card \in CardInputs(game_state, seat) :
          \E caps \in ProposedCaptures(game_state, card) :
             PlayCard(game_state, seat, card, caps).message = m

\* a mover is past db.record_move of a play that play_card accepted
AfterAcceptedPlay ==
    \/ net.pc = "played" /\ net'.pc = "idle"
    \/ timeout.pc = "played" /\ timeout'.pc = "idle"
    \/ ai.pc = "played" /\ ai'.pc = "idle"

\* C16: the current seat changes only in the step that follows an accepted
\* play, and then from s to (s+1) mod numPlayers; once the game is finished
\* the current seat does not change, the game stays finished, and no timer
\* is armed and no AI task is started.
SeatAdvancesOnlyByPlay ==
    [][/\ game_state'.current_player # game_state.current_player =>
            /\ AfterAcceptedPlay
            /\ game_state'.move_history = game_state.move_history
            /\ game_state'.current_player
                 = (game_state.current_player + 1) % game_state.num_players
       /\ game_state.is_finished =>
            /\ game_state'.is_finished
            /\ game_state'.current_player = game_state.current_player
            /\ timer'.live => (timer.live /\ timer' = timer)
            /\ ai_tasks' <= ai_tasks]_vars

\* the game finished after the seat had gone round to seat 0 again, and the
\* mover of the last play is through
FinishedAfterWrap ==
    /\ game_state.is_finished
    /\ net.pc = "idle" /\ timeout.pc = "idle" /\ ai.pc = "idle"
    /\ \E k \in 1..(Plays - 1) :
          /\ game_state.move_history[k].player = game_state.num_players - 1
          /\ game_state.move_history[k + 1].player = 0

\* a step of the timeout task or of an AI task
TaskStep == timeout' # timeout \/ ai' # ai \/ ai_tasks' # ai_tasks

\* C17: once close_room has run for the room, no step of a timeout task or
\* an AI task that was outstanding changes the room's game state: what is
\* left of them does nothing.
ClosedRoomIsLeftAlone ==
    [][(~room_open /\ TaskStep) => game_state' = game_state]_vars

\* C18: while the room's Timer is armed, no timeout_handler of an earlier
\* Timer plays a card: arming a timeout leaves it the only one that can
\* auto-play.
OneLiveTimeout ==
    [][~(timer.live /\ timeout.pc = "sleep" /\ timeout'.pc = "played")]_vars

\* C19: a step arms the turn timer only when the seat to move after it is
\* human, starts an AI task only when that seat is an AI seat, and a
\* timeout_handler gets a card played only for a human seat.
TimerOnlyForHumanSeat ==
    [][/\ (timer'.live /\ timer' # timer)
            => ~IsAiPlayer(game_state'.current_player)
       /\ ai_tasks' > ai_tasks
            => IsAiPlayer(game_state'.current_player)
       /\ (timeout.pc = "sleep" /\ timeout'.pc = "played")
            => /\ ~IsAiPlayer(game_state.current_player)
               /\ ~IsAiPlayer(game_state'.move_history[Plays + 1].player)]_vars

\* the timer was armed again for the human seat after the AI seat's play,
\* and an earlier timeout_handler has played for that human seat
TimerArmedAfterAiPlay ==
    /\ timer.live
    /\ timer.armed_at >= 2
    /\ ~IsAiPlayer(game_state.current_player)
    /\ IsAiPlayer(game_state.move_history[timer.armed_at].player)
    /\ timeout.pc = "played"

\* the cards dealt and the cards left in the deck
DealtAndDeck == AllHands(game_state) \o game_state.table \o game_state.deck

\* no card of the current round has been played yet
RoundStart ==
    /\ ~game_state.is_finished
    /\ Plays = (DeckSize - TableSize) * (game_state.round_number - 1)

\* C20: at the start of every round, the first and each later one, every
\* seat holds exactly 3 cards, the table holds exactly 4, the deck holds
\* 40 - (3 * num_players + 4), and hands, table and deck together are the 40
\* distinct cards of a fresh deck; a round starts after 36 plays of each
\* round before it and not earlier.
RoundStartsFromFreshDeck ==
    /\ Plays >= (DeckSize - TableSize) * (game_state.round_number - 1)
    /\ RoundStart =>
          /\ \A i \in Seats(game_state) : Len(game_state.players[i].hand) = 3
          /\ Len(game_state.table) = 4
          /\ Len(game_state.deck) = 40 - (3 * game_state.num_players + 4)
          /\ Len(DealtAndDeck) = 40
          /\ Range(DealtAndDeck) = 1..40
          /\ \A i \in Seats(game_state) :
                game_state.players[i].round_captures = << >>

\* the second round has been dealt
SecondRoundDealt ==
    /\ RoundStart
    /\ game_state.round_number = 2
    /\ game_state.table # << >>

\* the state play_card has made of the accepted play of this step when it
\* reaches _check_and_deal_cards
BeforeRedeal ==
    LET m == game_state'.move_history[Plays + 1]
    IN  ExecutePlay(game_state, m.player, m.card, m.captured)

\* the cards _deal_new_hands takes from the deck: the last 3 * num_players
Redealt(g) ==
    SubSeq(g.deck, Len(g.deck) - 3 * g.num_players + 1, Len(g.deck))

\* C21: an accepted play that leaves every hand empty while the deck holds
\* at least 3 * num_players cards gives every seat exactly 3 new cards from
\* the deck, the deck shrinks by 3 * num_players, and the table, the capture
\* piles, the scores and the chkobba counters are those the play left.
RedealRule ==
    [][(/\ PlayAccepted
        /\ AllHandsEmpty(BeforeRedeal)
        /\ Len(BeforeRedeal.deck) >= 3 * game_state.num_players)
         => /\ \A i \in Seats(game_state) : Len(game_state'.players[i].hand) = 3
            /\ Cardinality(Range(AllHands(game_state'))) = 3 * game_state.num_players
            /\ Range(AllHands(game_state')) = Range(Redealt(BeforeRedeal))
            /\ game_state'.deck
                 = SubSeq(BeforeRedeal.deck, 1,
                          Len(BeforeRedeal.deck) - 3 * game_state.num_players)
            /\ game_state'.table = BeforeRedeal.table
            /\ game_state'.round_number = game_state.round_number
            /\ game_state'.last_capturer = BeforeRedeal.last_capturer
            /\ \A i \in Seats(game_state) :
                  /\ game_state'.players[i].round_captures
                       = BeforeRedeal.players[i].round_captures
                  /\ game_state'.players[i].captured_cards
                       = BeforeRedeal.players[i].captured_cards
                  /\ game_state'.players[i].score = game_state.players[i].score
                  /\ game_state'.players[i].chkobba_count
                       = BeforeRedeal.players[i].chkobba_count]_vars

\* the hands were dealt again in the first round, twice: 18 cards are left
\* of the 30 the deck held after the setup
HandsRedealtTwice ==
    /\ game_state.round_number = 1
    /\ Len(game_state.deck) = DeckSize - (3 * game_state.num_players + TableSize)
                                 - 2 * 3 * game_state.num_players
    /\ \A i \in Seats(game_state) : Len(game_state.players[i].hand) = 3

\* BeforeRedeal with the move of this step recorded
Logged == [BeforeRedeal EXCEPT !.move_history = game_state'.move_history]

\* C22: when an accepted play leaves at least one hand non-empty, the redeal
\* check deals nothing, ends no round, changes no state and reports that no
\* cards were dealt, and applying it again gives the same state.
RedealCheckIsNoOp ==
    [][(PlayAccepted /\ ~AllHandsEmpty(BeforeRedeal))
         => /\ game_state' = Logged
            /\ CheckAndDealCards(Logged) = [g |-> Logged, dealt |-> FALSE]
            /\ CheckAndDealCards(CheckAndDealCards(Logged).g)
                 = CheckAndDealCards(Logged)]_vars

\* a play has left one hand empty and another not, with cards in the deck
OneHandEmpty ==
    /\ Plays > 0
    /\ game_state.deck # << >>
    /\ \E i, j \in Seats(game_state) :
          /\ game_state.players[i].hand = << >>
          /\ game_state.players[j].hand # << >>

\* the seat whose capture was the most recent when the round ends with the
\* play of this step
LastCapturer ==
    IF game_state'.move_history[Plays + 1].captured # << >>
    THEN game_state'.move_history[Plays + 1].player
    ELSE game_state.last_capturer

\* the table cards end_round gives to seat i
Award(i) == IF i = LastCapturer THEN BeforeRedeal.table ELSE << >>

\* the round-capture pile of seat i with the table cards it is given
AwardedPile(i) == BeforeRedeal.players[i].round_captures \o Award(i)

AwardedDiamonds(i) ==
    Cardinality({k \in DOMAIN AwardedPile(i) : Suit(AwardedPile(i)[k]) = 1})

\* the round score of seat i counted over the piles with the table cards
AwardedScore(i) ==
      Point(Len(AwardedPile(i)) >= 21
            /\ \A j \in Seats(game_state) \ {i} :
                  Len(AwardedPile(j)) < Len(AwardedPile(i)))
    + Point(AwardedDiamonds(i) > 0
            /\ \A j \in Seats(game_state) \ {i} :
                  AwardedDiamonds(j) < AwardedDiamonds(i))
    + Point(\E k \in DOMAIN AwardedPile(i) : AwardedPile(i)[k] = 17)
    + Point(\E k \in DOMAIN AwardedPile(i) : AwardedPile(i)[k] = 27)
    + BeforeRedeal.players[i].chkobba_count

\* C23: at round end the cards still on the table go to the pile of the
\* seat that captured last in the round and count in that seat's score; when
\* no seat captured in the round they go to no pile and count for no one.
TableGoesToLastCapturer ==
    [][\A i \in Seats(game_state) :
          /\ game_state'.players[i].captured_cards
               = BeforeRedeal.players[i].captured_cards \o Award(i)
          /\ game_state'.players[i].score
               = game_state.players[i].score + AwardedScore(i)
          /\ game_state'.is_finished
               => game_state'.players[i].round_captures = AwardedPile(i)]_vars

\* a round was scored in which seat 1 had captured 20 cards and captured
\* again with its last card: the 5 table cards, captured or left over,
\* brought its pile to 25 and with it the most-cards point
TableCardsDecided ==
    /\ game_state.num_players = 2
    /\ game_state.round_number = 2
    /\ Len(game_state.players[0].captured_cards) = 10
    /\ Len(game_state.players[1].captured_cards) = 25
    /\ game_state.players[1].score = 4

\* The cards a position holds outside the piles: hands, table and deck.
InPlay(g) == HandsFrom(g, 0) \o g.table \o g.deck

\* C24: when a round ends without ending the game, the round number grows by
\* one, the last capturer is cleared, every seat's round-capture pile and
\* chkobba counter are reset, and the hands, the table and the deck are
\* re-dealt from a fresh deck of 40 distinct cards (3 cards a seat, 4 on the
\* table, the rest in the deck), while each seat keeps its cumulative score
\* with the round score added and its cumulative captured pile.
RoundTransition ==
    [][(game_state'.round_number # game_state.round_number) =>
          /\ ~game_state'.is_finished
          /\ game_state'.round_number = game_state.round_number + 1
          /\ game_state'.last_capturer = None
          /\ Len(game_state'.table) = 4
          /\ Len(game_state'.deck) = 40 - (3 * game_state.num_players + 4)
          /\ Len(InPlay(game_state')) = 40
          /\ Range(InPlay(game_state')) = 1..40
          /\ \A i \in Seats(game_state) :
                /\ Len(game_state'.players[i].hand) = 3
                /\ game_state'.players[i].round_captures = << >>
                /\ game_state'.players[i].chkobba_count = 0
                /\ game_state'.players[i].score
                      = game_state.players[i].score + AwardedScore(i)
                /\ game_state'.players[i].captured_cards
                      = BeforeRedeal.players[i].captured_cards \o Award(i)]_vars

\* The fifth round has started: the seats hold new hands, and a seat keeps
\* the piles and the score of the earlier rounds although its round pile and
\* chkobba counter are empty again.
FifthRoundStarted ==
    /\ game_state.round_number = 5
    /\ ~game_state.is_finished
    /\ \E i \in Seats(game_state) :
          /\ game_state.players[i].score > 19
          /\ Len(game_state.players[i].captured_cards) > 2
          /\ game_state.players[i].round_captures = << >>
          /\ game_state.players[i].chkobba_count = 0
          /\ Len(game_state.players[i].hand) = 3

\* ------------------------------------------------- positions of one trick
\* The pure functions of the engine and of the heuristic policy (play_card,
\* _validate_capture, _find_captures, get_legal_moves, _medium_move) are
\* applied to positions drawn from small pools of cards: any table made of
\* the cards of TablePool, hands of up to MaxHand cards, seat 0 human and
\* seat 1 AI.

\* the most cards a drawn hand holds
MaxHand == 2

\* the plays made from a drawn position
MaxPlays == 2

\* AH 2H 3H 4H 3D 7D: values 1 2 3 4 3 7
TablePool == {1, 2, 3, 4, 13, 17}

\* 6H KH 3C 7C: values 6 10 3 7
HandPool == {6, 10, 23, 27}

\* 4C JH 5S: the AI seat's hand, values 4 9 5
OpponentHand == <<24, 9, 35>>

\* the cards of a set as a list in ascending order
RECURSIVE Ascending(_)
Ascending(S) ==
    IF S = {} THEN << >>
    ELSE LET m == CHOOSE x \in S : \A y \in S : x <= y
         IN  <<m>> \o Ascending(S \ {m})

\* A two-seat GameState in round 1 with the given table and hands and an
\* exhausted deck
TrickPosition(table, hand, other) ==
    [NewGameState(DefaultPlayers, << >>)
        EXCEPT !.table = table,
               !.players[0].hand = hand,
               !.players[1].hand = other]

PositionInit ==
    /\ \E T \in SUBSET TablePool :
         \E k \in 1..MaxHand :
           \E hand \in [1..k -> HandPool] :
              /\ \A i, j \in 1..k : i # j => hand[i] # hand[j]
              /\ game_state = TrickPosition(Ascending(T), hand,
                                            SubSeq(OpponentHand, 1, k))
    /\ ai_players = [i \in 1..1 |-> "medium"]
    /\ target_score = WINNING_SCORE
    /\ timer = [live |-> FALSE, armed_at |-> 0]
    /\ net = Idle
    /\ timeout = Idle
    /\ ai_tasks = 0
    /\ ai = Idle
    /\ room_open = TRUE

\* What a client can name as captured_cards: the lists of ProposedCaptures
\* and lists holding a card that is not on the table (the played card itself)
Proposals(g, card) ==
    ProposedCaptures(g, card) \cup {<<card>>}
      \cup {<<g.table[i], card>> : i \in DOMAIN g.table}

\* play_card of a human seat with a card and a capture list it accepts,
\* followed by next_turn
PositionPlay ==
    LET g == game_state
        idx == g.current_player
    IN  /\ g.round_number = 1
        /\ ~g.is_finished
        /\ Plays < MaxPlays
        /\ ~IsAiPlayer(idx)
        /\ \E card \in Range(g.players[idx].hand) :
             \E captured_cards \in Proposals(g, card) :
                LET r == PlayCard(g, idx, card, captured_cards)
                IN  /\ r.success
                    /\ game_state' = NextTurn(r.g)
        /\ UNCHANGED <<ai_players, target_score, timer, net, timeout, ai_tasks, ai,
                       room_open>>

\* ai_move of an AI seat: choose_move, play_card of the move it returns and
\* next_turn
PositionAiPlay ==
    LET g == game_state
        idx == g.current_player
    IN  /\ g.round_number = 1
        /\ ~g.is_finished
        /\ Plays < MaxPlays
        /\ IsAiPlayer(idx)
        /\ \E m \in ChooseMove(ai_players[idx], g, idx) :
              LET r == PlayCard(g, idx, m.card, m.captured)
              IN  /\ r.success
                  /\ game_state' = NextTurn(r.g)
        /\ UNCHANGED <<ai_players, target_score, timer, net, timeout, ai_tasks, ai,
                       room_open>>

PositionNext == PositionPlay \/ PositionAiPlay

PositionSpec == PositionInit /\ [][PositionNext]_vars

\* The cards a client can name: every card of a hand or of the table, and
\* one card that is in neither
NamedCards(g) ==
    LET held == Range(AllHands(g)) \cup Range(g.table)
    IN  held \cup {CHOOSE c \in 1..DeckSize : c \notin held}

\* C25: play_card by a seat other than the current seat is rejected as
\* not-your-turn whatever card and capture list it names, also when the card
\* is not in that seat's hand; play_card by the current seat of a card that
\* is not in its hand is rejected as card-not-in-hand whatever the capture
\* list.
TurnCheckThenHandCheck ==
    LET g == game_state
    IN  \A seat \in Seats(g) :
          \A card \in NamedCards(g) :
            \A caps \in Proposals(g, card) :
              LET r == PlayCard(g, seat, card, caps)
              IN  /\ seat # g.current_player
                     => ~r.success /\ r.message = "not_your_turn"
                  /\ (seat = g.current_player
                        /\ \A k \in DOMAIN g.players[seat].hand :
                              g.players[seat].hand[k] # card)
                     => ~r.success /\ r.message = "not_in_hand"

\* after a play, the seat that has just played still holds a card while it
\* is the other seat's turn, and the seat to move holds a card too
WaitingSeatHoldsCards ==
    /\ Plays = 1
    /\ game_state.current_player = 1
    /\ game_state.players[0].hand # << >>
    /\ game_state.players[1].hand # << >>
    /\ game_state.table # << >>

\* C26: for a non-empty capture list proposed with a hand card of the
\* current seat, the failures come in the stated order: a list naming a card
\* that is not on the table is rejected as card-not-on-table; otherwise a
\* list whose values do not sum to the card's value is rejected as
\* sum-mismatch; otherwise a list of two or more cards, when a single table
\* card has the card's value, is rejected as combo-not-allowed.
ValidationOrder ==
    LET g == game_state
        idx == g.current_player
    IN  \A k \in DOMAIN g.players[idx].hand :
          \A caps \in Proposals(g, g.players[idx].hand[k]) \ {<< >>} :
            LET card == g.players[idx].hand[k]
                r == PlayCard(g, idx, card, caps)
            IN  IF \E i \in DOMAIN caps :
                      \A j \in DOMAIN g.table : g.table[j] # caps[i]
                THEN ~r.success /\ r.message = "not_on_table"
                ELSE IF SumValues(caps) # Value(card)
                THEN ~r.success /\ r.message = "sum_mismatch"
                ELSE (Len(caps) > 1
                        /\ \E j \in DOMAIN g.table : Value(g.table[j]) = Value(card))
                     => ~r.success /\ r.message = "combo_not_allowed"

\* C27: a play of the current seat that is accepted with a non-empty capture
\* list captures one of the sets of find_captures for the card on the table:
\* the list has the cards of that set, each once, all of them on the table,
\* and their values sum to the card's value; a list that names a card twice
\* is never accepted.
AcceptedCaptureIsEnumerated ==
    LET g == game_state
        idx == g.current_player
    IN  \A k \in DOMAIN g.players[idx].hand :
          \A caps \in Proposals(g, g.players[idx].hand[k]) \ {<< >>} :
            LET card == g.players[idx].hand[k]
                sets == FindCaptures(g, card)
                r == PlayCard(g, idx, card, caps)
                repeated == \E i, j \in DOMAIN caps : i # j /\ caps[i] = caps[j]
            IN  /\ repeated => ~r.success
                /\ r.success =>
                      /\ \E n \in DOMAIN sets :
                            /\ Len(sets[n]) = Len(caps)
                            /\ Range(sets[n]) = Range(caps)
                      /\ Cardinality(Range(caps)) = Len(caps)
                      /\ Range(caps) \subseteq Range(g.table)
                      /\ SumValues(caps) = Value(card)
                      /\ r.g.move_history[Plays + 1].captured = caps

\* a play that captured two or more table cards has been accepted, from a
\* table on which a card taken twice would have had the same sum
ComboCaptured ==
    /\ Plays = 1
    /\ Len(LastMove.captured) >= 2
    /\ \E i \in DOMAIN LastMove.captured :
          2 * Value(LastMove.captured[i]) = Value(LastMove.card)

\* the sum of the values of a set of cards
RECURSIVE ValueOfSet(_)
ValueOfSet(S) ==
    IF S = {} THEN 0
    ELSE LET c == CHOOSE x \in S : TRUE
         IN  Value(c) + ValueOfSet(S \ {c})

\* the table cards with the value v, and the sets of two or more table cards
\* whose values sum to v
MatchingCards(g, v) == {c \in Range(g.table) : Value(c) = v}

SummingSets(g, v) ==
    {S \in SUBSET Range(g.table) : Cardinality(S) >= 2 /\ ValueOfSet(S) = v}

\* C28: for a card of any of the ten values on the current table, find_captures returns,
\* when some table card has the card's value, exactly the one-card lists of
\* the table cards with that value and nothing else; otherwise exactly the
\* sets of two or more table cards whose values sum to the card's value;
\* in both cases each set once and no card twice in a set.
FindCapturesRule ==
    LET g == game_state
    IN  \A card \in {c \in 1..DeckSize : Suit(c) = Suit(Dinari)} :
          LET sets == FindCaptures(g, card)
              v == Value(card)
          IN  /\ \A n \in DOMAIN sets : Cardinality(Range(sets[n])) = Len(sets[n])
              /\ \A m, n \in DOMAIN sets : m # n => Range(sets[m]) # Range(sets[n])
              /\ IF MatchingCards(g, v) # {}
                 THEN {Range(sets[n]) : n \in DOMAIN sets}
                         = {{c} : c \in MatchingCards(g, v)}
                 ELSE {Range(sets[n]) : n \in DOMAIN sets} = SummingSets(g, v)

\* after a play, the table holds a card with the value of a card of the
\* seat to move and also a set of cards that sums to it; and for another
\* value it holds no match but two sets or more that sum to it
MatchesHideCombos ==
    /\ Plays >= 1
    /\ \E k \in DOMAIN CurrentHand :
          /\ MatchingCards(game_state, Value(CurrentHand[k])) # {}
          /\ SummingSets(game_state, Value(CurrentHand[k])) # {}
    /\ \E v \in 1..10 :
          /\ MatchingCards(game_state, v) = {}
          /\ Cardinality(SummingSets(game_state, v)) >= 2

\* the pairs of a hand card of the seat with a set that find_captures
\* returns for it, or with the empty list
MovePairs(g, seat) ==
    LET hand == g.players[seat].hand
    IN  UNION {{[card |-> hand[k], captured |-> S] :
                  S \in Range(FindCaptures(g, hand[k])) \cup {<< >>}} :
               k \in DOMAIN hand}

\* C29: for every seat get_legal_moves returns exactly the pairs of a hand
\* card with a set of find_captures for that card and the pair of every hand
\* card with the empty list, each pair once; the list is empty iff the seat's
\* hand is empty.
LegalMovesRule ==
    LET g == game_state
    IN  \A seat \in Seats(g) :
          LET moves == GetLegalMoves(g, seat)
          IN  /\ Range(moves) = MovePairs(g, seat)
              /\ Len(moves) = Cardinality(MovePairs(g, seat))
              /\ \A k \in DOMAIN g.players[seat].hand :
                    \E n \in DOMAIN moves :
                        moves[n] = [card |-> g.players[seat].hand[k], captured |-> << >>]
              /\ moves = << >> <=> g.players[seat].hand = << >>

\* after seat 0 played its only card, seat 1 holds a card with two capture
\* sets or more
EmptyHandBesideChoices ==
    /\ Plays = 1
    /\ game_state.players[0].hand = << >>
    /\ \E k \in DOMAIN game_state.players[1].hand :
          Len(FindCaptures(game_state, game_state.players[1].hand[k])) >= 2

\* 100 if the captured cards include 7D, plus 50 if they are all the cards
\* of the table, plus the sum of their values
HeuristicValue(g, m) ==
      100 * Point(Haya \in Range(m.captured))
    + 50 * Point(m.captured # << >> /\ Range(m.captured) = Range(g.table))
    + ValueOfSet(Range(m.captured))

\* the positions in the list of legal moves at which the value is greatest
BestPositions(g, seat) ==
    LET moves == GetLegalMoves(g, seat)
    IN  {k \in DOMAIN moves :
            \A j \in DOMAIN moves :
                HeuristicValue(g, moves[j]) <= HeuristicValue(g, moves[k])}

\* C30: for every seat that holds a card, the heuristic policy returns the
\* legal move that stands first, in the order of get_legal_moves, among the moves
\* with the greatest value of 100 [captures include 7D] + 50 [captures clear
\* the table] + sum of the captured cards' values.
HeuristicPicksFirstBest ==
    LET g == game_state
    IN  \A seat \in Seats(g) :
          g.players[seat].hand # << >> =>
            LET moves == GetLegalMoves(g, seat)
                first == CHOOSE k \in BestPositions(g, seat) :
                            \A j \in BestPositions(g, seat) : k <= j
            IN  /\ ChooseMove("medium", g, seat) = {moves[first]}
                /\ MediumMove(g, seat) = moves[first]

\* the AI seat is to move after the human's play, two of its moves share the
\* greatest value and the first move of its list has a smaller one
TiedBestNotFirst ==
    /\ Plays = 1
    /\ IsAiPlayer(game_state.current_player)
    /\ Cardinality(BestPositions(game_state, game_state.current_player)) >= 2
    /\ 1 \notin BestPositions(game_state, game_state.current_player)

\* C31: for each of the three strategies and every seat, the moves that
\* choose_move can return are moves of get_legal_moves for that seat, and
\* choose_move returns the 'no move' value (no move at all) exactly when that
\* list is empty.
ChoiceIsLegalMove ==
    LET g == game_state
    IN  \A level \in AI_LEVELS :
          \A seat \in Seats(g) :
            LET moves == GetLegalMoves(g, seat)
                choice == ChooseMove(level, g, seat)
            IN  /\ \A m \in choice : \E n \in DOMAIN moves : moves[n] = m
                /\ choice = {} <=> moves = << >>
                /\ level = "easy" => \A n \in DOMAIN moves : moves[n] \in choice

\* seat 0 has played its only card and has no move, while the board
\* evaluation of seat 1 can return two or more of its moves but not all
NoMoveBesideChoice ==
    /\ Plays = 1
    /\ GetLegalMoves(game_state, 0) = << >>
    /\ Cardinality(ChooseMove("hard", game_state, 1)) >= 2
    /\ Cardinality(ChooseMove("hard", game_state, 1))
          < Len(GetLegalMoves(game_state, 1))

\* a step in which a mover's play_card accepts a play: the mover goes on to
\* db.record_move
PlayStep ==
    \/ net.pc # "played" /\ net'.pc = "played"
    \/ timeout.pc # "played" /\ timeout'.pc = "played"
    \/ ai.pc # "played" /\ ai'.pc = "played"

\* C32: the move log is append-only.  A step in which play_card accepts a
\* play adds exactly one entry at the end, holding the seat that moved, a
\* card of its hand, the captured cards, taken from the table, and the
\* chkobba and haya flags of that play, and the state is the one the redeal
\* check makes of the logged play; every other step, a rejected play
\* included, leaves the log as it is; no earlier entry changes.
MoveLogAppendOnly ==
    [][LET old == game_state.move_history
           new == game_state'.move_history
       IN  /\ Len(old) <= Len(new)
           /\ SubSeq(new, 1, Len(old)) = old
           /\ IF PlayStep
              THEN /\ Len(new) = Len(old) + 1
                   /\ LET e == new[Len(new)]
                      IN  /\ e.player = game_state.current_player
                          /\ e.card \in Range(game_state.players[e.player].hand)
                          /\ Range(e.captured) \subseteq Range(game_state.table)
                          /\ e.is_chkobba <=> /\ e.captured # << >>
                                               /\ Range(e.captured) = Range(game_state.table)
                          /\ e.is_haya <=> Haya \in Range(e.captured)
                   /\ game_state' = CheckAndDealCards(Logged).g
              ELSE new = old]_vars

\* the log holds a play that was a chkobba and a later play that captured
\* nothing, and the round of the first entries is over
LogSpansRounds ==
    /\ game_state.round_number = 2
    /\ Plays > 36
    /\ \E i, j \in DOMAIN game_state.move_history :
          /\ i < j
          /\ game_state.move_history[i].is_chkobba
          /\ game_state.move_history[j].captured = << >>

\* C33: play_card of the current seat with an empty capture list, for a hand
\* card that has at least one possible capture, is rejected as
\* capture-mandatory, whatever other cards the seat holds.
DeclineOnlyWithoutCapture ==
    LET g == game_state
        idx == g.current_player
    IN  \A k \in DOMAIN g.players[idx].hand :
          LET card == g.players[idx].hand[k]
              r == PlayCard(g, idx, card, << >>)
          IN  FindCaptures(g, card) # << >>
                => ~r.success /\ r.message = "must_capture"

\* -------------------------------------------- games played one play at a time
\* The engine alone, for 2, 3 and 4 seats: each step is one accepted
\* play_card followed by next_turn, from the first deal on.

TurnPlayers == {2, 3, 4}

\* The plays explored: in the opening every play that play_card accepts,
\* after it the heuristic move
TurnMoves(g) ==
    LET idx == g.current_player
        hand == g.players[idx].hand
    IN  IF Len(g.move_history) < Window
        THEN UNION {{[card |-> hand[k], captured |-> caps] :
                        caps \in Range(FindCaptures(g, hand[k])) \cup {<< >>}} :
                    k \in DOMAIN hand}
        ELSE {MediumMove(g, idx)}

TurnInit ==
    /\ \E n \in TurnPlayers :
         \E cards \in PileOrders :
            /\ game_state = NewGameState(n, cards)
            /\ ai_players = [i \in 1..(n - 1) |-> "medium"]
    /\ target_score = WINNING_SCORE
    /\ timer = [live |-> FALSE, armed_at |-> 0]
    /\ net = Idle
    /\ timeout = Idle
    /\ ai_tasks = 0
    /\ ai = Idle
    /\ room_open = TRUE

\* play_card of the current seat, accepted, and then next_turn
TurnPlay ==
    LET g == game_state
        idx == g.current_player
    IN  /\ ~g.is_finished
        /\ WithinRounds
        /\ g.players[idx].hand # << >>
        /\ \E m \in TurnMoves(g) :
              LET r == PlayCard(g, idx, m.card, m.captured)
              IN  /\ r.success
                  /\ game_state' = NextTurn(r.g)
        /\ UNCHANGED <<ai_players, target_score, timer, net, timeout, ai_tasks, ai,
                       room_open>>

TurnNext == TurnPlay

TurnSpec == TurnInit /\ [][TurnNext]_vars

\* C34: in an unfinished game played one play at a time the current seat
\* holds a card, every hand has between 0 and 3 cards, and the seats that
\* already played in the current cycle (those before the current seat) hold
\* exactly one card fewer than the current seat and the seats after it.
HandSizesInStep ==
    LET g == game_state
        size(i) == Len(g.players[i].hand)
    IN  ~g.is_finished =>
          /\ size(g.current_player) >= 1
          /\ \A i \in Seats(g) :
                /\ size(i) \in 0..3
                /\ i < g.current_player => size(i) = size(g.current_player) - 1
                /\ i >= g.current_player => size(i) = size(g.current_player)

\* in a game of four seats two seats have played their last card and the
\* other two still hold one
TwoSeatsOutOfCards ==
    /\ game_state.num_players = 4
    /\ game_state.current_player = 2
    /\ game_state.players[0].hand = << >>
    /\ game_state.players[1].hand = << >>
    /\ Len(game_state.players[3].hand) = 1

\* C35: for 2, 3 and 4 seats the number of cards left in the deck is always
\* a multiple of 3 * num_players, so no state has every hand empty and a deck
\* of more than 0 and fewer than 3 * num_players cards.
DeckDividesIntoDeals ==
    LET g == game_state
        deal == 3 * g.num_players
    IN  /\ g.num_players \in {2, 3, 4}
        /\ Len(g.deck) % deal = 0
        /\ ~(AllHandsEmpty(g) /\ 0 < Len(g.deck) /\ Len(g.deck) < deal)

\* the last deal of a round of three seats has just been made: the deck is
\* empty and every seat holds 3 cards
LastDealMade ==
    /\ game_state.num_players = 3
    /\ Plays > 0
    /\ game_state.deck = << >>
    /\ \A i \in Seats(game_state) : Len(game_state.players[i].hand) = 3

\* the plays of one round: every card of the deck but the 4 dealt to the table
PlaysPerRound == DeckSize - TableSize

\* C36: a round ends after exactly 36 accepted plays: an unfinished game is
\* in round (plays / 36) + 1 and a finished game has made 36 plays for every
\* round; the round number grows or the game finishes only with a play that
\* completes 36; and the first play of every round is seat 0's.
RoundLength ==
    LET g == game_state
    IN  /\ PlaysPerRound = 36
        /\ ~g.is_finished => g.round_number = (Plays \div PlaysPerRound) + 1
        /\ g.is_finished => Plays = PlaysPerRound * g.round_number
        /\ (~g.is_finished /\ Plays % PlaysPerRound = 0) => g.current_player = 0
        /\ \A k \in DOMAIN g.move_history :
              k % PlaysPerRound = 1 => g.move_history[k].player = 0

\* the second round of a game of three seats has just been dealt
SecondRoundOfThree ==
    /\ game_state.num_players = 3
    /\ game_state.round_number = 2
    /\ Plays = PlaysPerRound
    /\ game_state.current_player = 0
    /\ ~game_state.is_finished

\* C37: game over is stable: once is_finished is true, no step changes the
\* finished flag, the winner or any seat's cumulative score, and no step adds
\* a play to the log (every play_card is rejected, all hands being empty).
GameOverIsStable ==
    [][game_state.is_finished =>
          /\ game_state'.is_finished
          /\ game_state'.winner = game_state.winner
          /\ \A i \in Seats(game_state) :
                game_state'.players[i].score = game_state.players[i].score
          /\ game_state'.move_history = game_state.move_history
          /\ AllHandsEmpty(game_state)]_vars

\* C38: is_finished is true iff a winner is set; the winner is then the
\* highest seat whose cumulative score is WINNING_SCORE or more; and while
\* the game is unfinished no seat has such a score.
WinnerIsLastToReach ==
    LET g == game_state
        over == {i \in Seats(g) : g.players[i].score >= 21}
    IN  /\ WINNING_SCORE = 21
        /\ g.is_finished <=> g.winner # None
        /\ g.is_finished =>
              /\ g.winner \in over
              /\ \A i \in over : i <= g.winner
        /\ ~g.is_finished => over = {}

\* two seats crossed the winning score in the same round, and the seat with
\* the lower index holds the higher score
TwoSeatsCrossed ==
    /\ game_state.is_finished
    /\ \E i \in Seats(game_state) :
          /\ i < game_state.winner
          /\ game_state.players[i].score > game_state.players[game_state.winner].score

\* C39: for the current seat holding a card, play_card accepts the move the
\* heuristic policy returns; the move captures iff some hand card of the seat
\* has a possible capture.
HeuristicMoveIsAccepted ==
    LET g == game_state
        idx == g.current_player
        hand == g.players[idx].hand
    IN  (hand # << >> /\ ~g.is_finished) =>
          LET m == MediumMove(g, idx)
              r == PlayCard(g, idx, m.card, m.captured)
          IN  /\ r.success
              /\ r.message = "played"
              /\ m.captured # << >>
                    <=> \E k \in DOMAIN hand : FindCaptures(g, hand[k]) # << >>

\* the AI seat is to move and holds a first card that captures nothing and a
\* second card that can capture
OnlySecondCardCaptures ==
    /\ Plays = 1
    /\ IsAiPlayer(game_state.current_player)
    /\ Len(CurrentHand) = 2
    /\ FindCaptures(game_state, CurrentHand[1]) = << >>
    /\ FindCaptures(game_state, CurrentHand[2]) # << >>

\* the play of this step ended a round: end_round ran inside play_card and
\* either dealt the next round or finished the game
RoundEndedInPlay ==
    /\ PlayStep
    /\ \/ game_state'.round_number # game_state.round_number
       \/ game_state'.is_finished /\ ~game_state.is_finished

\* C40: for every round that ends, whether or not it ends the game, the
\* round-end check that the mover runs after the play reports the round end:
\* check_round_end returns true (and emits round_ended) for the state the
\* play left.
RoundEndIsReported ==
    [][RoundEndedInPlay => CheckRoundEnd(game_state').round_ended]_vars

====
